---- MODULE Spec2Model ----
(***************************************************************************)
(* AppConfig of cellxgene (server/common/config/app_config.py): one        *)
(* ServerConfig, one default DatasetConfig, a dict of per-dataroot         *)
(* DatasetConfigs and the completion flag, with every public operation of  *)
(* AppConfig as one action.  ServerConfig and DatasetConfig live in        *)
(* modules that are not part of the sources at hand; their methods are     *)
(* modelled from their documented contract.                                *)
(***************************************************************************)
EXTENDS Integers, Sequences, FiniteSets, TLC

VARIABLES
    default_config,          \* self.default_config: the default resource, sections server and dataset
    server_config,           \* self.server_config: attribute name -> value
    default_dataset_config,  \* self.default_dataset_config: attribute name -> value
    dataroot_config,         \* self.dataroot_config: dataroot tag -> (attribute name -> value)
    dataroot_order,          \* the keys of self.dataroot_config in insertion order (dict iteration order)
    is_completed,            \* self.is_completed
    is_complete,             \* self.is_complete: an attribute that exists only once an update_* has set it
    call,                    \* the last call made on the AppConfig: operation and arguments
    result,                  \* how that call ended: returned, or the exception it raised
    ret,                     \* what that call returned (an object, a mapping) or wrote (a file)
    trace                    \* the nested calls and flag writes that call made, in order

vars == <<default_config, server_config, default_dataset_config, dataroot_config,
          dataroot_order, is_completed, is_complete, call, result, ret, trace>>

----------------------------------------------------------------------------
(* Bounds and value domains *)

\* Dataset attribute values are 0..MaxValid+1; the last one is out of range.
MaxValid == 1

DatasetValues == 0 .. (MaxValid + 1)

\* Dataroot tags that calls and files may name; only DeclTags are ever declared
\* in server_config.multi_dataset__dataroot.
DeclTags == {"d1", "d2"}
AllTags == DeclTags \cup {"d3"}

\* Option paths of the default resource, per section (group, option name).
ServerPaths == {<<"single_dataset", "datapath">>, <<"multi_dataset", "dataroot">>}
DatasetPaths == {<<"user_annotations", "enable">>}
\* A path that no section of the default resource has.
UnknownPath == <<"no_such", "option">>

\* "__".join(path): the attribute name of an option path.
AttrName(path) ==
    CASE path = <<"single_dataset", "datapath">> -> "single_dataset__datapath"
      [] path = <<"multi_dataset", "dataroot">> -> "multi_dataset__dataroot"
      [] path = <<"user_annotations", "enable">> -> "user_annotations__enable"
      [] path = <<"no_such", "option">> -> "no_such__option"

\* name.split("__"): the option path of an attribute name.
SplitName(name) ==
    CASE name = "single_dataset__datapath" -> <<"single_dataset", "datapath">>
      [] name = "multi_dataset__dataroot" -> <<"multi_dataset", "dataroot">>
      [] name = "user_annotations__enable" -> <<"user_annotations", "enable">>
      [] name = "no_such__option" -> <<"no_such", "option">>

ServerAttrs == {AttrName(p) : p \in ServerPaths}
DatasetAttrs == {AttrName(p) : p \in DatasetPaths}
UnknownAttr == AttrName(UnknownPath)

\* A server attribute value: None, a string, or a dict (of which only the keys matter).
NoneValue == [type |-> "NoneType", str |-> "", keys |-> {}]
StrValue(s) == [type |-> "str", str |-> s, keys |-> {}]
DictValue(K) == [type |-> "dict", str |-> "", keys |-> K]

DatapathValues == {NoneValue, StrValue("/data/a.h5ad")}
DatarootValues == {NoneValue, StrValue("/data"), DictValue({"d1"}), DictValue({"d1", "d2"})}

\* Python truthiness of a server attribute value.
Truthy(v) == v.str # "" \/ v.keys # {}

\* The empty mapping: no keyword arguments, an empty section.
EmptyKw == [a \in {} |-> 0]

\* The mapping with the single entry k: v.
Single(k, v) == [a \in {k} |-> v]

----------------------------------------------------------------------------
(* ServerConfig and DatasetConfig: a config object is its attributes, name -> value. *)

\* ServerConfig(app, section) / DatasetConfig(tag, app, section): the attributes
\* are derived from the nested default-config section.
NewConfig(section) ==
    [name \in {AttrName(p) : p \in DOMAIN section} |->
        section[CHOOSE p \in DOMAIN section : AttrName(p) = name]]

\* create_mapping(config): attribute name -> (path, value in config).
create_mapping(config) ==
    [name \in {AttrName(p) : p \in DOMAIN config} |->
        LET p == CHOOSE q \in DOMAIN config : AttrName(q) = name IN <<p, config[p]>>]

\* update(**kw): sets the named attributes; an unknown name raises
\* ConfigurationError.  The keyword sets used here name at most one unknown
\* attribute and nothing after it, so a raising update has applied nothing.
update(cfg, kw) ==
    IF DOMAIN kw \subseteq DOMAIN cfg
    THEN [raised |-> FALSE,
          cfg |-> [a \in DOMAIN cfg |-> IF a \in DOMAIN kw THEN kw[a] ELSE cfg[a]]]
    ELSE [raised |-> TRUE, cfg |-> cfg]

\* update_from_config(config, label): the nested mapping is flattened to
\* attribute names and applied with the same validation as update.
update_from_config(cfg, config) ==
    LET mapping == create_mapping(config)
    IN  update(cfg, [name \in DOMAIN mapping |-> mapping[name][2]])

\* Type/range validation of one attribute value.
AttrValid(name, v) ==
    CASE name = "single_dataset__datapath" -> v.type \in {"NoneType", "str"}
      [] name = "multi_dataset__dataroot" -> v.type \in {"NoneType", "dict"}
      [] OTHER -> v \in 0 .. MaxValid

\* check_config(): raises ConfigurationError iff some attribute fails validation.
nested_check_config(cfg) == \A a \in DOMAIN cfg : AttrValid(a, cfg[a])

\* complete_config(context): the completion pass; raises ConfigurationError iff
\* validation fails.  It derives no value that AppConfig reads.
nested_complete_config(cfg) == \A a \in DOMAIN cfg : AttrValid(a, cfg[a])

\* changes_from_default(): the attributes whose value differs from the default section.
nested_changes_from_default(cfg, section) ==
    LET dflt == NewConfig(section)
        diff == {a \in DOMAIN cfg : cfg[a] # dflt[a]}
    IN  [a \in diff |-> cfg[a]]

----------------------------------------------------------------------------
(* AppConfig.  An operation maps the object (a record of its fields) to an   *)
(* outcome: the object afterwards, how the call ended, what it returned and *)
(* the nested calls it made.                                                *)

Returned == [kind |-> "ok", msg |-> ""]
ConfigurationError(msg) == [kind |-> "ConfigurationError", msg |-> msg]
KeyError(msg) == [kind |-> "KeyError", msg |-> msg]

\* References to the objects an AppConfig owns.
NoObject == [attr |-> "None", key |-> ""]
ServerRef == [attr |-> "server_config", key |-> ""]
DefaultRef == [attr |-> "default_dataset_config", key |-> ""]
DatarootRef(tag) == [attr |-> "dataroot_config", key |-> tag]

Outcome(self, res, obj, tr) == [self |-> self, result |-> res, ret |-> obj, trace |-> tr]

\* The object a reference names.
Deref(self, ref) ==
    CASE ref.attr = "server_config" -> self.server_config
      [] ref.attr = "default_dataset_config" -> self.default_dataset_config
      [] ref.attr = "dataroot_config" -> self.dataroot_config[ref.key]

\* The nested configs in the order check_config and complete_config visit them:
\* server, default dataset, then dataroot_config.values() in insertion order.
NestedOrder(self) ==
    <<ServerRef, DefaultRef>> \o
    [i \in 1 .. Len(self.dataroot_order) |-> DatarootRef(self.dataroot_order[i])]

\* Whether the nested call of method on the config returns (rather than raises).
NestedReturns(method, cfg) ==
    IF method = "check_config" THEN nested_check_config(cfg) ELSE nested_complete_config(cfg)

\* Index of the first config of refs on which method raises; 0 if it raises on none.
FirstRaise(self, refs, method) ==
    LET bad == {i \in 1 .. Len(refs) : ~NestedReturns(method, Deref(self, refs[i]))}
    IN  IF bad = {} THEN 0 ELSE CHOOSE i \in bad : \A j \in bad : i <= j

\* The calls of method made on refs: all of them, or up to the one that raised.
Calls(method, refs, firstRaise) ==
    LET n == IF firstRaise = 0 THEN Len(refs) ELSE firstRaise
    IN  [i \in 1 .. n |-> [op |-> method, on |-> refs[i]]]

SetFlag(value) == <<[op |-> value, on |-> NoObject]>>

\* get_dataset_config without the single-dataset test of its first line.
get_dataset_config_LookupOnly(self, dataroot_key) ==
    IF dataroot_key \in DOMAIN self.dataroot_config
    THEN Outcome(self, Returned, DatarootRef(dataroot_key), <<>>)
    ELSE Outcome(self, Returned, DefaultRef, <<>>)

\* AppConfig.get_dataset_config
get_dataset_config(self, dataroot_key) ==
    IF Truthy(self.server_config["single_dataset__datapath"])
    THEN Outcome(self, Returned, DefaultRef, <<>>)
    ELSE IF dataroot_key \in DOMAIN self.dataroot_config
         THEN Outcome(self, Returned, DatarootRef(dataroot_key), <<>>)
         ELSE Outcome(self, Returned, DefaultRef, <<>>)

\* check_config clearing is_completed when a nested check_config raises.
check_config_ClearsFlag(self) ==
    IF ~self.is_completed
    THEN Outcome(self, ConfigurationError("The configuration has not been completed"),
                 NoObject, <<>>)
    ELSE LET refs == NestedOrder(self)
             bad == FirstRaise(self, refs, "check_config")
         IN  IF bad = 0
             THEN Outcome(self, Returned, NoObject, Calls("check_config", refs, bad))
             ELSE Outcome([self EXCEPT !.is_completed = FALSE],
                          ConfigurationError("check_config"), NoObject,
                          Calls("check_config", refs, bad))

\* check_config without the test of is_completed.
check_config_IgnoresFlag(self) ==
    LET refs == NestedOrder(self)
        bad == FirstRaise(self, refs, "check_config")
    IN  Outcome(self, IF bad = 0 THEN Returned ELSE ConfigurationError("check_config"),
                NoObject, Calls("check_config", refs, bad))

\* AppConfig.check_config
check_config(self) ==
    IF ~self.is_completed
    THEN Outcome(self, ConfigurationError("The configuration has not been completed"),
                 NoObject, <<>>)
    ELSE LET refs == NestedOrder(self)
             bad == FirstRaise(self, refs, "check_config")
         IN  Outcome(self,
                     IF bad = 0 THEN Returned ELSE ConfigurationError("check_config"),
                     NoObject, Calls("check_config", refs, bad))

\* update_server_config assigning True to is_completed.
update_server_config_SetsCompleted(self, kw) ==
    LET u == update(self.server_config, kw)
    IN  IF u.raised
        THEN Outcome(self, ConfigurationError("update"), NoObject, <<>>)
        ELSE Outcome([self EXCEPT !.server_config = u.cfg, !.is_completed = TRUE],
                     Returned, NoObject, <<>>)

\* AppConfig.update_server_config
update_server_config(self, kw) ==
    LET u == update(self.server_config, kw)
    IN  IF u.raised
        THEN Outcome(self, ConfigurationError("update"), NoObject, <<>>)
        ELSE Outcome([self EXCEPT !.server_config = u.cfg, !.is_complete = "False"],
                     Returned, NoObject, <<>>)

\* update_default_dataset_config without the loop over dataroot_config.values().
update_default_dataset_config_NoPropagate(self, kw) ==
    LET u == update(self.default_dataset_config, kw)
    IN  IF u.raised
        THEN Outcome(self, ConfigurationError("update"), NoObject, <<>>)
        ELSE Outcome([self EXCEPT !.default_dataset_config = u.cfg, !.is_complete = "False"],
                     Returned, NoObject, <<>>)

\* AppConfig.update_default_dataset_config.  Every DatasetConfig has the same
\* attribute names, so a kw the default config accepts raises on no dataroot config.
update_default_dataset_config(self, kw) ==
    LET u == update(self.default_dataset_config, kw)
    IN  IF u.raised
        THEN Outcome(self, ConfigurationError("update"), NoObject, <<>>)
        ELSE Outcome([self EXCEPT
                        !.default_dataset_config = u.cfg,
                        !.dataroot_config =
                            [t \in DOMAIN self.dataroot_config |->
                                update(self.dataroot_config[t], kw).cfg],
                        !.is_complete = "False"],
                     Returned, NoObject, <<>>)

\* The registration without the reset of is_completed.
register_dataroot_config_NoReset(self, dataroot_tag, kw) ==
    LET new == NewConfig(self.default_config["dataset"])
        u2 == update_from_config(new, kw)
        after == [self EXCEPT
                    !.dataroot_config =
                        [t \in DOMAIN self.dataroot_config \cup {dataroot_tag} |->
                            IF t = dataroot_tag THEN u2.cfg ELSE self.dataroot_config[t]],
                    !.dataroot_order = Append(self.dataroot_order, dataroot_tag)]
    IN  Outcome(after, IF u2.raised THEN ConfigurationError("update") ELSE Returned,
                NoObject, <<>>)

\* AppConfig.add_dataroot_config once its three checks have passed: the flag
\* is reset and the new DatasetConfig is built, seeded and overridden.
\* default_dataset_config.default_config is default_config["dataset"].
register_dataroot_config(self, dataroot_tag, kw) ==
    LET new == NewConfig(self.default_config["dataset"])
        flat_config == create_mapping(self.default_config["dataset"])
        config == [key \in DOMAIN flat_config |-> flat_config[key][2]]
        u1 == update(new, config)
        u2 == update_from_config(u1.cfg, kw)
        after == [self EXCEPT
                    !.is_completed = FALSE,
                    !.dataroot_config =
                        [t \in DOMAIN self.dataroot_config \cup {dataroot_tag} |->
                            IF t = dataroot_tag THEN u2.cfg ELSE self.dataroot_config[t]],
                    !.dataroot_order = Append(self.dataroot_order, dataroot_tag)]
    IN  Outcome(after,
                IF u1.raised \/ u2.raised THEN ConfigurationError("update") ELSE Returned,
                NoObject, <<>>)

AlreadyExists == ConfigurationError("dataroot config already exists")
NotADictionary == ConfigurationError("The server__multi_dataset__dataroot must be a dictionary")
TagNotFound == ConfigurationError("The dataroot_tag not found in server__multi_dataset__dataroot")

\* add_dataroot_config without the test that the tag is not yet registered.
add_dataroot_config_NoDuplicateCheck(self, dataroot_tag, kw) ==
    LET dataroot == self.server_config["multi_dataset__dataroot"]
        without == [self EXCEPT
                      !.dataroot_config =
                          [t \in DOMAIN self.dataroot_config \ {dataroot_tag} |->
                              self.dataroot_config[t]],
                      !.dataroot_order =
                          SelectSeq(self.dataroot_order, LAMBDA t : t # dataroot_tag)]
    IN  IF dataroot.type # "dict"
        THEN Outcome(self, NotADictionary, NoObject, <<>>)
        ELSE IF dataroot_tag \notin dataroot.keys
        THEN Outcome(self, TagNotFound, NoObject, <<>>)
        ELSE register_dataroot_config(without, dataroot_tag, kw)

\* add_dataroot_config without the test that the tag is a key of the mapping.
add_dataroot_config_NoTagCheck(self, dataroot_tag, kw) ==
    LET dataroot == self.server_config["multi_dataset__dataroot"] IN
    IF dataroot_tag \in DOMAIN self.dataroot_config
    THEN Outcome(self, AlreadyExists, NoObject, <<>>)
    ELSE IF dataroot.type # "dict"
    THEN Outcome(self, NotADictionary, NoObject, <<>>)
    ELSE register_dataroot_config(self, dataroot_tag, kw)

\* add_dataroot_config with the reset of is_completed made before the checks.
add_dataroot_config_ResetFirst(self, dataroot_tag, kw) ==
    LET dataroot == self.server_config["multi_dataset__dataroot"]
        reset == [self EXCEPT !.is_completed = FALSE]
    IN  IF dataroot_tag \in DOMAIN self.dataroot_config
        THEN Outcome(reset, AlreadyExists, NoObject, <<>>)
        ELSE IF dataroot.type # "dict"
        THEN Outcome(reset, NotADictionary, NoObject, <<>>)
        ELSE IF dataroot_tag \notin dataroot.keys
        THEN Outcome(reset, TagNotFound, NoObject, <<>>)
        ELSE register_dataroot_config(self, dataroot_tag, kw)

\* AppConfig.add_dataroot_config.  kw is a nested mapping (it goes to update_from_config).
add_dataroot_config(self, dataroot_tag, kw) ==
    LET dataroot == self.server_config["multi_dataset__dataroot"] IN
    IF dataroot_tag \in DOMAIN self.dataroot_config
    THEN Outcome(self, AlreadyExists, NoObject, <<>>)
    ELSE IF dataroot.type # "dict"
    THEN Outcome(self, NotADictionary, NoObject, <<>>)
    ELSE IF dataroot_tag \notin dataroot.keys
    THEN Outcome(self, TagNotFound, NoObject, <<>>)
    ELSE register_dataroot_config(self, dataroot_tag, kw)

\* complete_config setting is_completed before the completion passes.
complete_config_FlagFirst(self) ==
    LET completed == [self EXCEPT !.is_completed = TRUE]
        refs == NestedOrder(self)
        bad == FirstRaise(self, refs, "complete_config")
        passes == Calls("complete_config", refs, bad)
    IN  IF bad # 0
        THEN Outcome(completed, ConfigurationError("complete_config"), NoObject,
                     SetFlag("is_completed = True") \o passes)
        ELSE LET chk == check_config(completed)
             IN  Outcome(completed, chk.result, NoObject,
                         SetFlag("is_completed = True") \o passes \o chk.trace)

\* complete_config calling check_config before it sets is_completed.
complete_config_CheckBeforeFlag(self) ==
    LET refs == NestedOrder(self)
        bad == FirstRaise(self, refs, "complete_config")
        passes == Calls("complete_config", refs, bad)
    IN  IF bad # 0
        THEN Outcome(self, ConfigurationError("complete_config"), NoObject, passes)
        ELSE LET chk == check_config(self)
             IN  IF chk.result.kind # "ok"
                 THEN Outcome(self, chk.result, NoObject, passes \o chk.trace)
                 ELSE Outcome([self EXCEPT !.is_completed = TRUE], Returned, NoObject,
                              passes \o chk.trace \o SetFlag("is_completed = True"))

\* AppConfig.complete_config
complete_config(self) ==
    LET refs == NestedOrder(self)
        bad == FirstRaise(self, refs, "complete_config")
        passes == Calls("complete_config", refs, bad)
    IN  IF bad # 0
        THEN Outcome(self, ConfigurationError("complete_config"), NoObject, passes)
        ELSE LET completed == [self EXCEPT !.is_completed = TRUE]
                 chk == check_config(completed)
             IN  Outcome(completed, chk.result, NoObject,
                         passes \o SetFlag("is_completed = True") \o chk.trace)

\* A parsed config file: the top-level keys it has, and under each key its
\* value (the empty mapping where the key is absent).  per_dataset_config is
\* the mapping's items in file order.
ConfigFile(keys, server, dataset, per_dataset_config) ==
    [keys |-> keys, server |-> server, dataset |-> dataset,
     per_dataset_config |-> per_dataset_config]

\* config.get(key): truthy iff the key is present with a non-empty mapping.
GetTruthy(config, key) == key \in config.keys /\ DOMAIN config[key] # {}

\* The loop of AppConfig.update_from_config_file over per_dataset_config.items(),
\* from item i on.  config["dataset"] raises KeyError when the file has no dataset key.
RECURSIVE per_dataset_loop(_, _, _, _)
per_dataset_loop(self, config, items, i) ==
    IF i > Len(items)
    THEN Outcome(self, Returned, NoObject, <<>>)
    ELSE IF "dataset" \notin config.keys
    THEN Outcome(self, KeyError("dataset"), NoObject, <<>>)
    ELSE LET key == items[i].key
             added == add_dataroot_config(self, key, config.dataset)
         IN  IF added.result.kind # "ok"
             THEN added
             ELSE LET u == update_from_config(added.self.dataroot_config[key],
                                              items[i].dataroot_config)
                  IN  IF u.raised
                      THEN Outcome(added.self, ConfigurationError("update"), NoObject, <<>>)
                      ELSE per_dataset_loop(
                               [added.self EXCEPT !.dataroot_config[key] = u.cfg],
                               config, items, i + 1)

\* AppConfig.update_from_config_file, from the parsed yaml mapping on.
update_from_config_file(self, config) ==
    LET us == update_from_config(self.server_config, config.server)
        s1 == IF GetTruthy(config, "server")
              THEN [self EXCEPT !.server_config = us.cfg] ELSE self
        ud == update_from_config(s1.default_dataset_config, config.dataset)
        s2 == IF GetTruthy(config, "dataset")
              THEN [s1 EXCEPT !.default_dataset_config = ud.cfg] ELSE s1
        items == IF "per_dataset_config" \in config.keys
                 THEN config.per_dataset_config ELSE <<>>
        loop == per_dataset_loop(s2, config, items, 1)
    IN  IF GetTruthy(config, "server") /\ us.raised
        THEN Outcome(self, ConfigurationError("update"), NoObject, <<>>)
        ELSE IF GetTruthy(config, "dataset") /\ ud.raised
        THEN Outcome(s1, ConfigurationError("update"), NoObject, <<>>)
        ELSE IF loop.result.kind # "ok"
        THEN loop
        ELSE Outcome([loop.self EXCEPT !.is_complete = "False"], Returned, NoObject, <<>>)

\* The nested section write_config builds for one config object: for every
\* attribute name of create_mapping(default section), the flat key
\* prefix__name holds getattr(cfg, name); unflatten splits the key at "__".
written_section(cfg, section) ==
    LET names == DOMAIN create_mapping(section)
    IN  [p \in {SplitName(name) : name \in names} |->
            cfg[CHOOSE name \in names : SplitName(name) = p]]

\* write_config dumping the values of the default section (value[1] of the
\* mapping) instead of getattr.
write_config_DefaultValues(self) ==
    LET server == written_section(NewConfig(self.default_config["server"]),
                                  self.default_config["server"])
        dataset == written_section(NewConfig(self.default_config["dataset"]),
                                   self.default_config["dataset"])
    IN  Outcome(self, Returned, ConfigFile({"server", "dataset"}, server, dataset, <<>>), <<>>)

\* AppConfig.write_config: the yaml mapping it dumps.  The keys server and
\* dataset are always there, per_dataset_config only with dataroot configs.
write_config(self) ==
    LET server == written_section(self.server_config, self.default_config["server"])
        dataset == written_section(self.default_dataset_config, self.default_config["dataset"])
        items == [i \in 1 .. Len(self.dataroot_order) |->
                     [key |-> self.dataroot_order[i],
                      dataroot_config |->
                          written_section(self.dataroot_config[self.dataroot_order[i]],
                                          self.default_config["dataset"])]]
        keys == {"server", "dataset"} \cup
                (IF DOMAIN self.dataroot_config # {} THEN {"per_dataset_config"} ELSE {})
    IN  Outcome(self, Returned, ConfigFile(keys, server, dataset, items), <<>>)

\* changes_from_default reporting every attribute with its current value.
changes_from_default_AllAttributes(self) ==
    Outcome(self, Returned,
            [server |-> self.server_config, dataset |-> self.default_dataset_config], <<>>)

\* AppConfig.changes_from_default
changes_from_default(self) ==
    LET diff_server == nested_changes_from_default(self.server_config,
                                                   self.default_config["server"])
        diff_dataset == nested_changes_from_default(self.default_dataset_config,
                                                    self.default_config["dataset"])
    IN  Outcome(self, Returned, [server |-> diff_server, dataset |-> diff_dataset], <<>>)

----------------------------------------------------------------------------
(* Inputs *)

\* Default resources: the server section declares no dataset location, with
\* the dataroot option of a valid or an invalid type; the dataset section holds
\* a value in range or out of range.
DefaultServerSections ==
    {[p \in ServerPaths |-> IF p = <<"multi_dataset", "dataroot">> THEN v ELSE NoneValue] :
        v \in {NoneValue, StrValue("/data")}}
DefaultDatasetSections == {[p \in DatasetPaths |-> v] : v \in {0, MaxValid + 1}}

ServerKws ==
    {Single("single_dataset__datapath", v) : v \in DatapathValues}
    \cup {Single("multi_dataset__dataroot", v) : v \in DatarootValues}
    \cup {Single(UnknownAttr, NoneValue)}

DatasetKws ==
    {Single(a, v) : a \in DatasetAttrs, v \in DatasetValues} \cup {Single(UnknownAttr, 0)}

\* Nested dataset mappings: overrides of add_dataroot_config, sections of a file.
DatasetMappings ==
    {EmptyKw} \cup {Single(p, v) : p \in DatasetPaths, v \in DatasetValues}
    \cup {Single(UnknownPath, 0)}

FileServerSections == {Single(<<"multi_dataset", "dataroot">>, DictValue({"d1", "d2"}))}
FileDatasetSections == {EmptyKw, Single(<<"user_annotations", "enable">>, 1)}
FilePerDataset ==
    {<<[key |-> "d1", dataroot_config |-> EmptyKw]>>,
     <<[key |-> "d1", dataroot_config |-> Single(<<"user_annotations", "enable">>, 0)],
       [key |-> "d2", dataroot_config |-> Single(UnknownPath, 0)]>>}

\* A top-level key of a file: absent, or present with one of the values.
Optional(values) == {[has |-> FALSE, val |-> EmptyKw]} \cup {[has |-> TRUE, val |-> v] : v \in values}

ConfigFiles ==
    {ConfigFile((IF s.has THEN {"server"} ELSE {}) \cup (IF d.has THEN {"dataset"} ELSE {})
                    \cup (IF p.has THEN {"per_dataset_config"} ELSE {}),
                s.val, d.val, p.val) :
        s \in Optional(FileServerSections), d \in Optional(FileDatasetSections),
        p \in Optional(FilePerDataset)}

NoFile == ConfigFile({}, EmptyKw, EmptyKw, EmptyKw)

----------------------------------------------------------------------------
(* The state machine *)

\* The AppConfig object as a record of its fields.
Self ==
    [default_config |-> default_config, server_config |-> server_config,
     default_dataset_config |-> default_dataset_config,
     dataroot_config |-> dataroot_config, dataroot_order |-> dataroot_order,
     is_completed |-> is_completed, is_complete |-> is_complete]

Call(op, tag, kw, config) == [op |-> op, tag |-> tag, kw |-> kw, config |-> config]

\* The call is made and its outcome becomes the state.
Do(c, out) ==
    /\ default_config' = out.self.default_config
    /\ server_config' = out.self.server_config
    /\ default_dataset_config' = out.self.default_dataset_config
    /\ dataroot_config' = out.self.dataroot_config
    /\ dataroot_order' = out.self.dataroot_order
    /\ is_completed' = out.self.is_completed
    /\ is_complete' = out.self.is_complete
    /\ call' = c
    /\ result' = out.result
    /\ ret' = out.ret
    /\ trace' = out.trace

\* AppConfig(): the object __init__ builds from a default resource.
new_AppConfig(resource) ==
    [default_config |-> resource, server_config |-> NewConfig(resource["server"]),
     default_dataset_config |-> NewConfig(resource["dataset"]),
     dataroot_config |-> EmptyKw, dataroot_order |-> <<>>,
     is_completed |-> FALSE, is_complete |-> "unset"]

\* AppConfig.__init__
Init ==
    /\ default_config \in
           {[server |-> s, dataset |-> d] :
               s \in DefaultServerSections, d \in DefaultDatasetSections}
    /\ server_config = NewConfig(default_config["server"])
    /\ default_dataset_config = NewConfig(default_config["dataset"])
    /\ dataroot_config = EmptyKw
    /\ dataroot_order = <<>>
    /\ is_completed = FALSE
    /\ is_complete = "unset"
    /\ call = Call("__init__", "", EmptyKw, NoFile)
    /\ result = Returned
    /\ ret = NoObject
    /\ trace = <<>>

GetDatasetConfig ==
    \E dataroot_key \in AllTags :
        Do(Call("get_dataset_config", dataroot_key, EmptyKw, NoFile),
           get_dataset_config(Self, dataroot_key))

CheckConfig == Do(Call("check_config", "", EmptyKw, NoFile), check_config(Self))

UpdateServerConfig ==
    \E kw \in ServerKws :
        Do(Call("update_server_config", "", kw, NoFile), update_server_config(Self, kw))

UpdateDefaultDatasetConfig ==
    \E kw \in DatasetKws :
        Do(Call("update_default_dataset_config", "", kw, NoFile),
           update_default_dataset_config(Self, kw))

UpdateFromConfigFile ==
    \E config \in ConfigFiles :
        Do(Call("update_from_config_file", "", EmptyKw, config),
           update_from_config_file(Self, config))

AddDatarootConfig ==
    \E dataroot_tag \in AllTags, kw \in DatasetMappings :
        Do(Call("add_dataroot_config", dataroot_tag, kw, NoFile),
           add_dataroot_config(Self, dataroot_tag, kw))

CompleteConfig == Do(Call("complete_config", "", EmptyKw, NoFile), complete_config(Self))

WriteConfig == Do(Call("write_config", "", EmptyKw, NoFile), write_config(Self))

ChangesFromDefault ==
    Do(Call("changes_from_default", "", EmptyKw, NoFile), changes_from_default(Self))

Next ==
    \/ GetDatasetConfig
    \/ CheckConfig
    \/ UpdateServerConfig
    \/ UpdateDefaultDatasetConfig
    \/ UpdateFromConfigFile
    \/ AddDatarootConfig
    \/ CompleteConfig
    \/ WriteConfig
    \/ ChangesFromDefault

Spec == Init /\ [][Next]_vars

----------------------------------------------------------------------------
(* Properties *)

Fields == <<default_config, server_config, default_dataset_config, dataroot_config,
            dataroot_order, is_completed, is_complete>>

\* The attribute names a nested mapping sets.
Names(mapping) == {AttrName(p) : p \in DOMAIN mapping}

\* The tags server_config.multi_dataset__dataroot declares (none if it is no dict).
DeclaredTags == server_config["multi_dataset__dataroot"].keys

\* Every nested config passes its own check_config.
AllNestedValid ==
    /\ nested_check_config(server_config)
    /\ nested_check_config(default_dataset_config)
    /\ \A t \in DOMAIN dataroot_config : nested_check_config(dataroot_config[t])

Succeeded(op) == call.op = op /\ result.kind = "ok"

\* C1: after a call of update_server_config or update_default_dataset_config
\* that returned, is_completed is false.
C1_UpdateResetsCompletion ==
    (Succeeded("update_server_config") \/ Succeeded("update_default_dataset_config"))
        => ~is_completed

\* C2: a complete_config call that raises ConfigurationError leaves
\* is_completed false.
C2_RaisingCompleteLeavesFalse ==
    (call.op = "complete_config" /\ result.kind = "ConfigurationError") => ~is_completed

C4_SeededFromCurrentDefault ==
    Succeeded("add_dataroot_config") =>
        \A a \in DatasetAttrs \ Names(call.kw) :
            dataroot_config[call.tag][a] = default_dataset_config[a]

\* C5: add_dataroot_config(tag, ...) called with tag already registered, or
\* with a server dataroot mapping that is no dict, or with tag not a key of
\* it, raises ConfigurationError and changes no field of the AppConfig.
C5_AddFailsUnchanged ==
    [][(/\ call'.op = "add_dataroot_config"
        /\ \/ call'.tag \in DOMAIN dataroot_config
           \/ server_config["multi_dataset__dataroot"].type # "dict"
           \/ call'.tag \notin server_config["multi_dataset__dataroot"].keys)
       => (result'.kind = "ConfigurationError" /\ UNCHANGED Fields)]_vars

C5_Witness ==
    /\ call.op = "add_dataroot_config"
    /\ result = AlreadyExists
    /\ is_completed

\* C6: check_config called while is_completed is false raises
\* ConfigurationError without having called any nested check_config.
C6_CheckFailsWhenIncomplete ==
    (call.op = "check_config" /\ ~is_completed)
        => (result.kind = "ConfigurationError" /\ trace = <<>>)

C6_Witness ==
    /\ call.op = "check_config"
    /\ ~is_completed
    /\ AllNestedValid
    /\ DOMAIN dataroot_config # {}
    /\ result.kind = "ConfigurationError"

\* C7: when complete_config returns, is_completed is true and every nested
\* config passes its check_config; and complete_config called right after
\* construction returns exactly when every nested config is valid.
C7_CompleteMeansValid ==
    [][call'.op = "complete_config" =>
          /\ result'.kind = "ok" => (is_completed' /\ AllNestedValid')
          /\ call.op = "__init__" => (result'.kind = "ok" <=> AllNestedValid)]_vars

C7_Witness ==
    /\ Succeeded("complete_config")
    /\ DOMAIN dataroot_config = DeclTags
    /\ is_completed

\* C8: after update_default_dataset_config(x=v) returns, the default dataset
\* config and every dataroot config have x = v.
C8_UpdatePropagates ==
    Succeeded("update_default_dataset_config") =>
        \A x \in DOMAIN call.kw :
            /\ default_dataset_config[x] = call.kw[x]
            /\ \A t \in DOMAIN dataroot_config : dataroot_config[t][x] = call.kw[x]

C8_Witness ==
    /\ Succeeded("update_default_dataset_config")
    /\ DOMAIN dataroot_config = DeclTags
    /\ \A t \in DeclTags : dataroot_config[t]["user_annotations__enable"] = 1

\* C9: get_dataset_config(key) returns, changes no field, and gives the
\* default dataset config if single_dataset__datapath is non-empty, else
\* dataroot_config[key] if key is registered, else the default dataset config.
C9_GetDatasetConfig ==
    [][call'.op = "get_dataset_config" =>
          /\ result'.kind = "ok"
          /\ UNCHANGED Fields
          /\ ret' = IF server_config["single_dataset__datapath"].str # ""
                    THEN DefaultRef
                    ELSE IF call'.tag \in DOMAIN dataroot_config
                         THEN DatarootRef(call'.tag) ELSE DefaultRef]_vars

C9_Witness ==
    /\ call.op = "get_dataset_config"
    /\ server_config["single_dataset__datapath"].str # ""
    /\ call.tag \in DOMAIN dataroot_config
    /\ ret = DefaultRef

\* C10: update_from_config_file raises nothing but ConfigurationError, and a
\* file without a dataset section whose per_dataset_config entries name
\* declared, not yet registered tags and known options succeeds and registers
\* each entry.
C10_SectionsOptional ==
    [][call'.op = "update_from_config_file" =>
          LET config == call'.config
              items == config.per_dataset_config
              tags == {items[i].key : i \in 1 .. Len(items)}
          IN  /\ result'.kind \in {"ok", "ConfigurationError"}
              /\ (/\ "dataset" \notin config.keys
                  /\ "per_dataset_config" \in config.keys
                  /\ tags \subseteq server_config'["multi_dataset__dataroot"].keys
                  /\ tags \cap DOMAIN dataroot_config = {}
                  /\ \A i \in 1 .. Len(items) :
                         Names(items[i].dataroot_config) \subseteq DatasetAttrs)
                 => (result'.kind = "ok" /\ tags \subseteq DOMAIN dataroot_config')]_vars

\* The per_dataset_config items of the file the last call was given.
FileItems == call.config.per_dataset_config

\* C11: after update_from_config_file succeeds, for every per_dataset_config
\* entry (tag, override), dataroot_config[tag] has the override's value for
\* each attribute the override names and the default dataset config's
\* current value for every other attribute.
C11_EntriesSeededFromCurrentDefault ==
    Succeeded("update_from_config_file") =>
        \A i \in 1 .. Len(FileItems) :
            LET tag == FileItems[i].key
                override == FileItems[i].dataroot_config
            IN  /\ tag \in DOMAIN dataroot_config
                /\ \A a \in DatasetAttrs :
                       dataroot_config[tag][a] =
                           IF a \in Names(override) THEN override[SplitName(a)]
                           ELSE default_dataset_config[a]

\* C12: after update_from_config_file of a file with at least one section
\* succeeds, is_completed is false.
C12_FileUpdateResetsCompletion ==
    (Succeeded("update_from_config_file") /\ call.config.keys # {}) => ~is_completed

\* C13: with no dataroot configs, the file write_config writes, read by
\* update_from_config_file on a new AppConfig of the same default resource,
\* is applied without error and gives every server and default-dataset
\* attribute the value it has in the writing AppConfig.
C13_WriteReadRoundTrip ==
    (call.op = "write_config" /\ DOMAIN dataroot_config = {}) =>
        LET read == update_from_config_file(new_AppConfig(default_config), ret)
        IN  /\ result.kind = "ok"
            /\ read.result.kind = "ok"
            /\ read.self.server_config = server_config
            /\ read.self.default_dataset_config = default_dataset_config

C13_Witness ==
    /\ call.op = "write_config"
    /\ DOMAIN dataroot_config = {}
    /\ server_config # NewConfig(default_config["server"])
    /\ default_dataset_config # NewConfig(default_config["dataset"])

\* C14: changes_from_default returns a mapping with the keys server and
\* dataset only; under each, exactly the attributes whose current value
\* differs from the default resource's value, with their current values.
C14_ChangesFromDefaultExact ==
    call.op = "changes_from_default" =>
        /\ result.kind = "ok"
        /\ DOMAIN ret = {"server", "dataset"}
        /\ DOMAIN ret.server =
               {a \in ServerAttrs : server_config[a] # default_config["server"][SplitName(a)]}
        /\ \A a \in DOMAIN ret.server : ret.server[a] = server_config[a]
        /\ DOMAIN ret.dataset =
               {a \in DatasetAttrs :
                   default_dataset_config[a] # default_config["dataset"][SplitName(a)]}
        /\ \A a \in DOMAIN ret.dataset : ret.dataset[a] = default_dataset_config[a]

C14_Witness ==
    /\ call.op = "changes_from_default"
    /\ DOMAIN ret.server # {}
    /\ DOMAIN ret.dataset = {}
    /\ is_complete = "False"
    /\ \E t \in DOMAIN dataroot_config :
           dataroot_config[t] # NewConfig(default_config["dataset"])

\* C15: in every step the keys of dataroot_config are kept, in their order;
\* the attributes of a registered config change only by the in-place update
\* of update_default_dataset_config; add_dataroot_config naming a registered
\* tag raises "already exists", and update_from_config_file with an entry
\* naming a registered tag does not succeed.
C15_DatarootConfigsKept ==
    [][/\ DOMAIN dataroot_config \subseteq DOMAIN dataroot_config'
       /\ Len(dataroot_order) <= Len(dataroot_order')
       /\ SubSeq(dataroot_order', 1, Len(dataroot_order)) = dataroot_order
       /\ \A t \in DOMAIN dataroot_config :
              dataroot_config'[t] # dataroot_config[t]
                  => call'.op = "update_default_dataset_config"
       /\ (call'.op = "add_dataroot_config" /\ call'.tag \in DOMAIN dataroot_config)
              => result' = AlreadyExists
       /\ (/\ call'.op = "update_from_config_file"
           /\ "per_dataset_config" \in call'.config.keys
           /\ \E i \in 1 .. Len(call'.config.per_dataset_config) :
                  call'.config.per_dataset_config[i].key \in DOMAIN dataroot_config)
              => result'.kind # "ok"]_vars

C15_Witness ==
    /\ call.op = "update_from_config_file"
    /\ result = AlreadyExists
    /\ DOMAIN dataroot_config = DeclTags

\* C16: the trace of complete_config is: completion passes on the server
\* config, the default dataset config and the dataroot configs, in that
\* order and up to the first that raises; then, only if none raised, the
\* write of is_completed; then the calls of check_config.  If a pass raises,
\* is_completed keeps its value.
C16_CompleteConfigOrder ==
    [][call'.op = "complete_config" =>
          LET refs == NestedOrder(Self)
              n == Len(refs)
              tr == trace'
              npass == IF Len(tr) < n THEN Len(tr) ELSE n
          IN  /\ Len(tr) >= 1
              /\ \A i \in 1 .. npass : tr[i] = [op |-> "complete_config", on |-> refs[i]]
              /\ refs[1] = ServerRef /\ refs[2] = DefaultRef
              /\ \A i \in 3 .. n : refs[i].attr = "dataroot_config"
              /\ {refs[i].key : i \in 3 .. n} = DOMAIN dataroot_config
              /\ Len(tr) > n => /\ tr[n + 1] = [op |-> "is_completed = True", on |-> NoObject]
                                /\ \A i \in (n + 2) .. Len(tr) : tr[i].op = "check_config"
                                /\ Len(tr) > n + 1
                                /\ is_completed'
              /\ Len(tr) <= n => /\ result'.kind = "ConfigurationError"
                                 /\ ~nested_complete_config(Deref(Self, refs[Len(tr)]))
                                 /\ \A i \in 1 .. (Len(tr) - 1) :
                                        nested_complete_config(Deref(Self, refs[i]))
                                 /\ is_completed' = is_completed]_vars

C16_Witness ==
    /\ call.op = "complete_config"
    /\ result.kind = "ConfigurationError"
    /\ Len(dataroot_order) = 2
    /\ Len(trace) = 3
    /\ is_completed

\* C17: a step that registers a dataroot config leaves is_completed false;
\* is_completed becomes true only in a step whose trace has a completion
\* pass on every registered dataroot config; and check_config called right
\* after a successful add_dataroot_config raises ConfigurationError.
C17_AddInvalidatesCompletion ==
    [][/\ DOMAIN dataroot_config' # DOMAIN dataroot_config => ~is_completed'
       /\ (~is_completed /\ is_completed') =>
              \A t \in DOMAIN dataroot_config' :
                  \E i \in 1 .. Len(trace') :
                      trace'[i] = [op |-> "complete_config", on |-> DatarootRef(t)]
       /\ (Succeeded("add_dataroot_config") /\ call'.op = "check_config")
              => result'.kind = "ConfigurationError"]_vars

C17_Witness ==
    /\ Succeeded("add_dataroot_config")
    /\ ~is_completed
    /\ AllNestedValid
    /\ DOMAIN dataroot_config = DeclTags

\* C18: check_config changes no field, and whether it returns or raises is
\* decided by the fields alone: it returns iff is_completed is true and
\* every nested config is valid.
C18_CheckConfigPure ==
    [][call'.op = "check_config" =>
          /\ UNCHANGED Fields
          /\ result'.kind = IF is_completed /\ AllNestedValid
                            THEN "ok" ELSE "ConfigurationError"]_vars

C18_Witness ==
    /\ call.op = "check_config"
    /\ result.kind = "ConfigurationError"
    /\ is_completed
    /\ DOMAIN dataroot_config # {}

\* C19: is_completed changes from false to true only in a complete_config call.
C19_OnlyCompleteSetsFlag ==
    [][(~is_completed /\ is_completed') => call'.op = "complete_config"]_vars

C19_Witness ==
    /\ Succeeded("complete_config")
    /\ is_completed
    /\ is_complete = "False"
    /\ DOMAIN dataroot_config # {}

====
